---- MODULE Spec2Model ----
(***************************************************************************)
(* Model of scripts/export_yolo_onnx.py: export_models() followed by the   *)
(* completion message of the __main__ block.                               *)
(*                                                                         *)
(* File names are sequences of one-character strings so that str.replace   *)
(* is computed, not assumed.  The file system is two directories: the      *)
(* working directory (cwd) and target_dir.  YOLO(), model.export(),        *)
(* os.makedirs() and os.rename() are external calls: each either returns   *)
(* or raises, chosen nondeterministically.                                 *)
(***************************************************************************)
EXTENDS Integers, Sequences, FiniteSets

VARIABLES pc, i, dirState, cwd, target, model, exported_path, final_path,
          onnx_filename, exc, trace, before

\* pc             the statement about to run
\* i              position of the loop of line 25 in the list (0 before it)
\* dirState       what is at target_dir: nothing, a directory, or a file
\* cwd, target    the files of the working directory and of target_dir
\* model .. exc   the local variables of export_models
\* trace          the external calls made and the lines printed, in order
\* before         the destination as the run found it (never written)
vars == <<pc, i, dirState, cwd, target, model, exported_path, final_path,
          onnx_filename, exc, trace, before>>

(* ------------------------------ bounds -------------------------------- *)

\* Number of entries of the checkpoint list the model runs over.
NumModels == 3

\* Number of artifacts an earlier run may have left in target_dir.
MaxPriorArtifacts == 1

(* ------------------------------ strings ------------------------------- *)

DotPt == <<".", "p", "t">>
DotOnnx == <<".", "o", "n", "n", "x">>

Yolo26(size, task) == <<"y", "o", "l", "o", "2", "6", size, "-">> \o task \o DotPt

Pose == <<"p", "o", "s", "e">>
Seg == <<"s", "e", "g">>

\* lines 6-17: the checkpoint list, in source order
AllModelNames ==
    << Yolo26("n", Pose), Yolo26("s", Pose), Yolo26("m", Pose),
       Yolo26("l", Pose), Yolo26("x", Pose),
       Yolo26("n", Seg), Yolo26("s", Seg), Yolo26("m", Seg),
       Yolo26("l", Seg), Yolo26("x", Seg) >>

Min(a, b) == IF a < b THEN a ELSE b

\* the list the loop of line 25 iterates over, cut to the model's bound
model_names == SubSeq(AllModelNames, 1, Min(NumModels, Len(AllModelNames)))

StartsWith(s, p) == Len(p) <= Len(s) /\ SubSeq(s, 1, Len(p)) = p

\* str.replace(old, new): every non-overlapping occurrence, left to right
RECURSIVE Replace(_, _, _)
Replace(s, old, new) ==
    IF s = <<>> THEN <<>>
    ELSE IF StartsWith(s, old)
         THEN new \o Replace(SubSeq(s, Len(old) + 1, Len(s)), old, new)
         ELSE <<Head(s)>> \o Replace(Tail(s), old, new)

OnnxFilenameAppended(model_name) == model_name \o DotOnnx

\* line 52: onnx_filename = model_name.replace(".pt", ".onnx")
OnnxFilename(model_name) == Replace(model_name, DotPt, DotOnnx)

\* The name with its last extension removed (the checkpoint's base name).
RECURSIVE LastDot(_)
LastDot(s) ==
    IF s = <<>> THEN 0
    ELSE IF s[Len(s)] = "." THEN Len(s)
    ELSE LastDot(SubSeq(s, 1, Len(s) - 1))

Basename(s) == IF LastDot(s) <= 1 THEN s ELSE SubSeq(s, 1, LastDot(s) - 1)

(* ------------------------------ paths --------------------------------- *)

NoName == <<>>
NoPath == [dir |-> "none", file |-> NoName]

CwdPath(f) == [dir |-> "cwd", file |-> f]

\* line 53: final_path = os.path.join(target_dir, onnx_filename)
JoinTarget(f) == [dir |-> "target", file |-> f]

\* lines 42, 55: the exporter saves next to the checkpoint, in the current
\* directory, under the checkpoint's base name with the .onnx suffix
ExporterOutputPath(name) == CwdPath(Basename(name) \o DotOnnx)

(* ---------------------------- file contents --------------------------- *)

Weights(n) == [kind |-> "pt", src |-> n, run |-> "earlier"]
PriorArtifact(f) == [kind |-> "onnx", src |-> f, run |-> "earlier"]
Artifact(n) == [kind |-> "onnx", src |-> n, run |-> "this"]

Put(d, f, c) == [x \in DOMAIN d \cup {f} |-> IF x = f THEN c ELSE d[x]]
Remove(d, f) == [x \in DOMAIN d \ {f} |-> d[x]]

\* os.path.exists on a path of the model
Exists(p) ==
    CASE p.dir = "cwd" -> p.file \in DOMAIN cwd
      [] p.dir = "target" -> dirState = "dir" /\ p.file \in DOMAIN target
      [] OTHER -> FALSE

(* --------------------------- export options --------------------------- *)

ExportConfigOpset12 ==
    [format |-> "onnx", imgsz |-> 640, simplify |-> TRUE,
     dynamic |-> FALSE, half |-> TRUE, opset |-> 12]

\* lines 42-49
ExportConfig ==
    [format |-> "onnx", imgsz |-> 640, simplify |-> TRUE,
     dynamic |-> FALSE, half |-> TRUE, opset |-> 17]

NoConfig ==
    [format |-> "", imgsz |-> 0, simplify |-> FALSE,
     dynamic |-> FALSE, half |-> FALSE, opset |-> 0]

(* ----------------------------- exceptions ----------------------------- *)

\* classes the external calls raise; all derive from Exception
LoadErrors == {"RuntimeError"}
ExportErrors == {"RuntimeError"}

CatchesOSErrorOnly(e) == e = "OSError"

\* line 62: except Exception
Catches(e) == e \in {"RuntimeError", "OSError", "TypeError", "FileExistsError"}

RaiseUncaught(e) == "crashed"

\* where control goes when e is raised inside the try block of lines 27-63
RaiseInTry(e) == IF Catches(e) THEN "except" ELSE "crashed"

(* ------------------------------ history ------------------------------- *)

Event(ev, what, name, path, cfg, res) ==
    [ev |-> ev, what |-> what, name |-> name, path |-> path, cfg |-> cfg,
     res |-> res]

\* an external call: its name, the checkpoint it is made for, its path
\* argument (for export: the path it returns), its options, "ok"/"true"/
\* "false" when it returns and "raise" when it raises
Call(op, name, path, cfg, ret) == Event("call", op, name, path, cfg, ret)

\* a printed line: its kind, the name and the path it shows, the exception
Line(kind, name, path, e) == Event("print", kind, name, path, NoConfig, e)

Say(l) == trace' = Append(trace, l)
Record(c) == trace' = Append(trace, c)

\* the loop variable of line 25
model_name == IF i \in 1..Len(model_names) THEN model_names[i] ELSE NoName

Range(s) == {s[k] : k \in 1..Len(s)}

(* ------------------------------- Init --------------------------------- *)

Init ==
    /\ pc = "makedirs"
    /\ i = 0
    /\ dirState \in {"absent", "dir", "file"}
    /\ \E S \in SUBSET Range(model_names) : cwd = [n \in S |-> Weights(n)]
    /\ \E T \in SUBSET {OnnxFilename(n) : n \in Range(model_names)} :
          /\ Cardinality(T) <= MaxPriorArtifacts
          /\ target = [f \in (IF dirState = "dir" THEN T ELSE {}) |-> PriorArtifact(f)]
    /\ model = NoName
    /\ exported_path = NoPath
    /\ final_path = NoPath
    /\ onnx_filename = NoName
    /\ exc = ""
    /\ trace = <<>>
    /\ before = [dirState |-> dirState, target |-> target]

(* ------------------------------ actions ------------------------------- *)

\* os.makedirs without exist_ok: an existing directory is an error
MakeDirsNoExistOk ==
    /\ pc = "makedirs"
    /\ \/ /\ dirState = "absent"
          /\ Record(Call("makedirs", NoName, JoinTarget(NoName), NoConfig, "ok"))
          /\ dirState' = "dir"
          /\ pc' = "header"
          /\ UNCHANGED exc
       \/ /\ Record(Call("makedirs", NoName, JoinTarget(NoName), NoConfig, "raise"))
          /\ exc' = IF dirState = "absent" THEN "OSError" ELSE "FileExistsError"
          /\ pc' = "crashed"
          /\ UNCHANGED dirState
    /\ UNCHANGED <<i, cwd, target, model, exported_path, final_path,
                   onnx_filename, before>>

\* line 21: os.makedirs(target_dir, exist_ok=True), outside any try
MakeDirs ==
    /\ pc = "makedirs"
    /\ \/ /\ dirState = "dir"
          /\ Record(Call("makedirs", NoName, JoinTarget(NoName), NoConfig, "ok"))
          /\ pc' = "header"
          /\ UNCHANGED <<dirState, exc>>
       \/ /\ dirState = "absent"
          /\ Record(Call("makedirs", NoName, JoinTarget(NoName), NoConfig, "ok"))
          /\ dirState' = "dir"
          /\ pc' = "header"
          /\ UNCHANGED exc
       \/ /\ dirState = "absent"
          /\ Record(Call("makedirs", NoName, JoinTarget(NoName), NoConfig, "raise"))
          /\ exc' = "OSError"
          /\ pc' = "crashed"
          /\ UNCHANGED dirState
       \/ /\ dirState = "file"
          /\ Record(Call("makedirs", NoName, JoinTarget(NoName), NoConfig, "raise"))
          /\ exc' = "FileExistsError"
          /\ pc' = "crashed"
          /\ UNCHANGED dirState
    /\ UNCHANGED <<i, cwd, target, model, exported_path, final_path,
                   onnx_filename, before>>

\* line 23
PrintHeader ==
    /\ pc = "header"
    /\ Say(Line("header", NoName, JoinTarget(NoName), ""))
    /\ pc' = "for"
    /\ UNCHANGED <<i, dirState, cwd, target, model, exported_path, final_path,
                   onnx_filename, exc, before>>

\* line 25: next item of the list, or the end of export_models
ForNext ==
    /\ pc = "for"
    /\ IF i < Len(model_names)
       THEN i' = i + 1 /\ pc' = "processing"
       ELSE i' = i /\ pc' = "complete"
    /\ UNCHANGED <<dirState, cwd, target, model, exported_path, final_path,
                   onnx_filename, exc, trace, before>>

\* line 26
PrintProcessing ==
    /\ pc = "processing"
    /\ Say(Line("processing", model_name, NoPath, ""))
    /\ pc' = "check"
    /\ UNCHANGED <<i, dirState, cwd, target, model, exported_path, final_path,
                   onnx_filename, exc, before>>

CheckCheckpointNextInverted(found) == IF found THEN "skip" ELSE "load"

\* line 28: if not os.path.exists(model_name)
CheckCheckpointNext(found) == IF found THEN "load" ELSE "skip"

CheckCheckpoint ==
    /\ pc = "check"
    /\ Record(Call("exists", model_name, CwdPath(model_name), NoConfig,
                   IF Exists(CwdPath(model_name)) THEN "true" ELSE "false"))
    /\ pc' = CheckCheckpointNext(Exists(CwdPath(model_name)))
    /\ UNCHANGED <<i, dirState, cwd, target, model, exported_path, final_path,
                   onnx_filename, exc, before>>

SkipFallsThrough == "load"

\* lines 29-30: report the skip and continue
SkipNext == "for"

Skip ==
    /\ pc = "skip"
    /\ Say(Line("skip", model_name, NoPath, ""))
    /\ pc' = SkipNext
    /\ UNCHANGED <<i, dirState, cwd, target, model, exported_path, final_path,
                   onnx_filename, exc, before>>

\* line 33: model = YOLO(model_name)
Load ==
    /\ pc = "load"
    /\ \/ /\ Record(Call("YOLO", model_name, CwdPath(model_name), NoConfig, "ok"))
          /\ model' = model_name
          /\ pc' = "export"
          /\ UNCHANGED exc
       \/ \E e \in LoadErrors :
          /\ Record(Call("YOLO", model_name, CwdPath(model_name), NoConfig, "raise"))
          /\ exc' = e
          /\ pc' = RaiseInTry(e)
          /\ UNCHANGED model
    /\ UNCHANGED <<i, dirState, cwd, target, exported_path, final_path,
                   onnx_filename, before>>

\* lines 42-49: exported_path = model.export(...)
Export ==
    /\ pc = "export"
    /\ \/ \* the exporter writes the artifact and returns its path
          /\ Record(Call("export", model, ExporterOutputPath(model), ExportConfig, "ok"))
          /\ cwd' = Put(cwd, ExporterOutputPath(model).file, Artifact(model))
          /\ exported_path' = ExporterOutputPath(model)
          /\ pc' = "final_path"
          /\ UNCHANGED exc
       \/ \* the exporter returns a path at which there is no file
          /\ ~Exists(ExporterOutputPath(model))
          /\ Record(Call("export", model, ExporterOutputPath(model), ExportConfig, "ok"))
          /\ exported_path' = ExporterOutputPath(model)
          /\ pc' = "final_path"
          /\ UNCHANGED <<cwd, exc>>
       \/ \* the exporter returns no path at all
          /\ Record(Call("export", model, NoPath, ExportConfig, "ok"))
          /\ exported_path' = NoPath
          /\ pc' = "final_path"
          /\ UNCHANGED <<cwd, exc>>
       \/ \E e \in ExportErrors :
          /\ Record(Call("export", model, NoPath, ExportConfig, "raise"))
          /\ exc' = e
          /\ pc' = RaiseInTry(e)
          /\ UNCHANGED <<cwd, exported_path>>
    /\ UNCHANGED <<i, dirState, target, model, final_path, onnx_filename, before>>

\* lines 52-53
ComputeFinalPath ==
    /\ pc = "final_path"
    /\ onnx_filename' = OnnxFilename(model_name)
    /\ final_path' = JoinTarget(OnnxFilename(model_name))
    /\ pc' = "check_exported"
    /\ UNCHANGED <<i, dirState, cwd, target, model, exported_path, exc, trace, before>>

CheckExportedNextInverted(found) == IF found THEN "warning" ELSE "rename"

\* lines 56, 59: the branch on os.path.exists(exported_path)
CheckExportedNext(found) == IF found THEN "rename" ELSE "warning"

\* line 56: if os.path.exists(exported_path); a non-path argument is a TypeError
CheckExported ==
    /\ pc = "check_exported"
    /\ IF exported_path = NoPath
       THEN /\ Record(Call("exists", model_name, exported_path, NoConfig, "raise"))
            /\ exc' = "TypeError"
            /\ pc' = RaiseInTry("TypeError")
       ELSE /\ Record(Call("exists", model_name, exported_path, NoConfig,
                           IF Exists(exported_path) THEN "true" ELSE "false"))
            /\ pc' = CheckExportedNext(Exists(exported_path))
            /\ UNCHANGED exc
    /\ UNCHANGED <<i, dirState, cwd, target, model, exported_path, final_path,
                   onnx_filename, before>>

RenamedTargetKeepsExisting(src, dst) ==
    IF dst.file \in DOMAIN target THEN target
    ELSE [x \in DOMAIN target \cup {dst.file} |->
             IF x = dst.file THEN cwd[src.file] ELSE target[x]]

\* os.rename(src, dst) when it returns: dst is replaced, src is gone
RenamedTarget(src, dst) == Put(target, dst.file, cwd[src.file])
RenamedCwd(src, dst) == Remove(cwd, src.file)

\* line 57: os.rename(exported_path, final_path); it raises OSError when the
\* source is missing, and may raise it for any other reason
Rename ==
    /\ pc = "rename"
    /\ \/ /\ Exists(exported_path)
          /\ Record(Call("rename", model_name, final_path, NoConfig, "ok"))
          /\ target' = RenamedTarget(exported_path, final_path)
          /\ cwd' = RenamedCwd(exported_path, final_path)
          /\ pc' = "success"
          /\ UNCHANGED exc
       \/ /\ Record(Call("rename", model_name, final_path, NoConfig, "raise"))
          /\ exc' = "OSError"
          /\ pc' = RaiseInTry("OSError")
          /\ UNCHANGED <<cwd, target>>
    /\ UNCHANGED <<i, dirState, model, exported_path, final_path,
                   onnx_filename, before>>

\* line 58
PrintSuccess ==
    /\ pc = "success"
    /\ Say(Line("success", onnx_filename, final_path, ""))
    /\ pc' = "for"
    /\ UNCHANGED <<i, dirState, cwd, target, model, exported_path, final_path,
                   onnx_filename, exc, before>>

\* line 60
PrintWarning ==
    /\ pc = "warning"
    /\ Say(Line("warning", NoName, exported_path, ""))
    /\ pc' = "for"
    /\ UNCHANGED <<i, dirState, cwd, target, model, exported_path, final_path,
                   onnx_filename, exc, before>>

ExceptLeavesLoop == "complete"

\* line 63 is the last statement of the loop body: the loop goes on
ExceptNext == "for"

\* lines 62-63: except Exception as e: print(...)
Except ==
    /\ pc = "except"
    /\ Say(Line("error", model_name, NoPath, exc))
    /\ exc' = ""
    /\ pc' = ExceptNext
    /\ UNCHANGED <<i, dirState, cwd, target, model, exported_path, final_path,
                   onnx_filename, before>>

\* line 67: the __main__ block, after export_models() has returned
PrintComplete ==
    /\ pc = "complete"
    /\ Say(Line("complete", NoName, NoPath, ""))
    /\ pc' = "done"
    /\ UNCHANGED <<i, dirState, cwd, target, model, exported_path, final_path,
                   onnx_filename, exc, before>>

Next ==
    \/ MakeDirs
    \/ PrintHeader
    \/ ForNext
    \/ PrintProcessing
    \/ CheckCheckpoint
    \/ Skip
    \/ Load
    \/ Export
    \/ ComputeFinalPath
    \/ CheckExported
    \/ Rename
    \/ PrintSuccess
    \/ PrintWarning
    \/ Except
    \/ PrintComplete

Spec == Init /\ [][Next]_vars

\* Every external call returns or raises, and the interpreter keeps running.
FairSpec == Spec /\ WF_vars(Next)

(* ------------------------- reading the trace --------------------------- *)

Idx == 1..Len(trace)

IsCall(k, op) == trace[k].ev = "call" /\ trace[k].what = op
IsLine(k, kind) == trace[k].ev = "print" /\ trace[k].what = kind

Names == Range(model_names)
NameIndex(n) == CHOOSE j \in 1..Len(model_names) : model_names[j] = n

\* the destination file name the specification gives a checkpoint
Dest(n) == Basename(n) \o DotOnnx

CallsFor(n, op) == {k \in Idx : IsCall(k, op) /\ trace[k].name = n}
ReturnedFor(n, op) == {k \in CallsFor(n, op) : trace[k].res # "raise"}

\* the existence test of line 56, as opposed to the one of line 28
IsOutputTest(k) == IsCall(k, "exists") /\ trace[k].path # CwdPath(trace[k].name)
OutputTestsFor(n) == {k \in Idx : IsOutputTest(k) /\ trace[k].name = n}

SkipLine(n) == Line("skip", n, NoPath, "")
SuccessLine(n) == Line("success", Dest(n), JoinTarget(Dest(n)), "")
WarningLine(n) == Line("warning", NoName, CwdPath(Dest(n)), "")
IsErrorLineFor(k, n) == IsLine(k, "error") /\ trace[k].name = n
CompleteLine == Line("complete", NoName, NoPath, "")

Printed(l) == {k \in Idx : trace[k] = l}
ErrorsFor(n) == {k \in Idx : IsErrorLineFor(k, n)}

IsOutcome(k) ==
    trace[k].ev = "print" /\ trace[k].what \in {"skip", "success", "warning", "error"}

\* how many checkpoints have been started / have an outcome before position k
StartedBefore(k) == Cardinality({m \in 1..(k - 1) : IsLine(m, "processing")})
OutcomesBefore(k) == Cardinality({m \in 1..(k - 1) : IsOutcome(m)})

\* checkpoint n has been processed to its end
Finished(n) ==
    \/ i > NameIndex(n)
    \/ i = NameIndex(n) /\ pc \in {"for", "complete", "done"}

\* after the outcome line at position m the loop goes on with the next
\* checkpoint of the list, or ends when there is none
GoesOnAfter(m) ==
    LET j == StartedBefore(m) IN
    IF m = Len(trace)
    THEN \/ pc = "for" /\ i = j
         \/ pc = "processing" /\ i = j + 1
         \/ pc = "complete" /\ i = j /\ j = Len(model_names)
    ELSE IF j < Len(model_names)
         THEN trace[m + 1] = Line("processing", model_names[j + 1], NoPath, "")
         ELSE trace[m + 1] = CompleteLine

(* ------------------------------- claims -------------------------------- *)

\* C1: a checkpoint whose file is not in the working directory is never
\* loaded, exported or renamed, gets no success, warning or error line, and
\* once its turn is over exactly one skip line names it.
C1_MissingCheckpointSkipped ==
    \A n \in Names :
        n \notin DOMAIN cwd =>
            /\ CallsFor(n, "YOLO") = {}
            /\ CallsFor(n, "export") = {}
            /\ CallsFor(n, "rename") = {}
            /\ Printed(SuccessLine(n)) = {}
            /\ ErrorsFor(n) = {}
            /\ Finished(n) => Cardinality(Printed(SkipLine(n))) = 1

C1_Witness ==
    /\ pc = "done"
    /\ \E n \in Names : n \notin DOMAIN cwd /\ Printed(SkipLine(n)) # {}
    /\ \E n \in Names : ReturnedFor(n, "rename") # {}

\* C2: every call that raises during a checkpoint (load, export, the test of
\* the reported path, rename) is followed by an error line naming that
\* checkpoint, never by a crash; after the error line the loop goes on with
\* the next checkpoint; and a finished run has started every checkpoint.
C2_FailureIsolatedPerCheckpoint ==
    /\ \A k \in Idx :
          (trace[k].ev = "call" /\ trace[k].res = "raise"
             /\ trace[k].what # "makedirs") =>
              /\ pc # "crashed"
              /\ IF k = Len(trace)
                 THEN pc = "except" /\ model_name = trace[k].name
                 ELSE IsErrorLineFor(k + 1, trace[k].name) /\ GoesOnAfter(k + 1)
    /\ pc = "done" =>
          \A n \in Names : Printed(Line("processing", n, NoPath, "")) # {}

C2_Witness ==
    /\ pc = "done"
    /\ \E k \in Idx : IsCall(k, "YOLO") /\ trace[k].res = "raise"
                       /\ trace[k].name = model_names[1]
    /\ \E k \in Idx : IsCall(k, "rename") /\ trace[k].res = "raise"
                       /\ trace[k].name = model_names[2]
    /\ \E k \in Idx : IsOutputTest(k) /\ trace[k].res = "raise"

\* the checkpoint was found, loaded and exported without any of it raising
ExportReturned(n) ==
    /\ n \in DOMAIN cwd
    /\ ReturnedFor(n, "YOLO") # {}
    /\ ReturnedFor(n, "export") # {}

\* the artifact the exporter produced for n is at n's destination
ArtifactDelivered(n) ==
    /\ Dest(n) \in DOMAIN target
    /\ target[Dest(n)] = Artifact(n)

\* C3 as stated: at the end of the run, every checkpoint that was found and
\* whose load and export returned has its own artifact at
\* <target_dir>/<basename>.onnx.
C3_AsStated ==
    pc = "done" => \A n \in Names : ExportReturned(n) => ArtifactDelivered(n)

\* C3 amended: at the end of the run, every checkpoint that was found, whose
\* load and export returned, whose reported output path existed and whose
\* rename returned has its own artifact at <target_dir>/<basename>.onnx; the
\* name computed by line 52 is that name for every entry of the list, and no
\* two entries share it.
C3_ArtifactAtDestination ==
    /\ pc = "done" =>
          \A n \in Names :
              (ExportReturned(n) /\ ReturnedFor(n, "rename") # {}) =>
                  ArtifactDelivered(n)
    /\ \A k \in Idx :
          IsCall(k, "rename") => trace[k].path = JoinTarget(Dest(trace[k].name))
    /\ pc = "makedirs" =>
          \A a, b \in Range(AllModelNames) :
              /\ OnnxFilename(a) = Dest(a)
              /\ OnnxFilename(a) = OnnxFilename(b) => a = b

C3_Witness ==
    /\ pc = "done"
    /\ Len(model_names) >= 2
    /\ ArtifactDelivered(model_names[1])
    /\ ArtifactDelivered(model_names[2])
    /\ Dest(model_names[1]) \in DOMAIN before.target

\* the destination of n holds what it held when the run started
DestinationUntouched(n) ==
    /\ (Dest(n) \in DOMAIN target) = (Dest(n) \in DOMAIN before.target)
    /\ Dest(n) \in DOMAIN target => target[Dest(n)] = before.target[Dest(n)]

\* C4: when the test of the reported output path answers "no", the
\* checkpoint's destination is as the run found it, nothing was renamed,
\* export was called once, there is neither a success nor an error line for
\* the checkpoint nor a crash, the warning line naming the reported path
\* follows, and the loop goes on with the next checkpoint.
C4_MissingOutputOnlyWarns ==
    \A k \in Idx :
        (IsOutputTest(k) /\ trace[k].res = "false") =>
            LET n == trace[k].name IN
            /\ DestinationUntouched(n)
            /\ CallsFor(n, "rename") = {}
            /\ Cardinality(CallsFor(n, "export")) = 1
            /\ Printed(SuccessLine(n)) = {}
            /\ ErrorsFor(n) = {}
            /\ pc # "crashed"
            /\ IF k = Len(trace)
               THEN pc = "warning" /\ model_name = n
               ELSE /\ trace[k + 1] = Line("warning", NoName, trace[k].path, "")
                    /\ GoesOnAfter(k + 1)

C4_Witness ==
    /\ pc = "done"
    /\ Len(model_names) >= 2
    /\ Printed(WarningLine(model_names[1])) # {}
    /\ Dest(model_names[1]) \in DOMAIN target
    /\ Printed(SuccessLine(model_names[2])) # {}

\* C5: whenever a checkpoint has been tested, loaded, exported or renamed,
\* the first thing the run did was a makedirs that returned and target_dir is
\* a directory; a directory that was already there is never an error and
\* keeps its files through makedirs.
C5_DirectoryBeforeCheckpoints ==
    /\ \A k \in Idx :
          trace[k].ev = "call" /\ trace[k].what # "makedirs" =>
              /\ k > 1
              /\ trace[1] = Call("makedirs", NoName, JoinTarget(NoName), NoConfig, "ok")
              /\ dirState = "dir"
    /\ \A k \in Idx : IsLine(k, "processing") => IsCall(1, "makedirs")
    /\ (before.dirState = "dir" /\ pc # "makedirs") =>
          /\ pc # "crashed"
          /\ dirState = "dir"
          /\ trace[1].res = "ok"
          /\ pc = "header" => target = before.target

C5_Witness ==
    /\ before.dirState = "absent"
    /\ dirState = "dir"
    /\ \E k \in Idx : IsCall(k, "rename") /\ trace[k].res = "ok"

\* the line that ends the processing of the checkpoint started j-th
OutcomeNames(k, n) ==
    \/ trace[k] = SkipLine(n)
    \/ trace[k] = SuccessLine(n)
    \/ trace[k] = WarningLine(n)
    \/ IsErrorLineFor(k, n)

\* C6: the processing lines name the list's entries in list order, each
\* followed by exactly one outcome line (skip, success, warning or error) for
\* the same checkpoint before the next processing line; every call made for
\* a checkpoint lies between its processing line and its outcome line; and a
\* finished run has done this once for every entry.
C6_SequentialInListOrder ==
    /\ \A k \in Idx :
          /\ IsLine(k, "processing") =>
                /\ OutcomesBefore(k) = StartedBefore(k)
                /\ StartedBefore(k) < Len(model_names)
                /\ trace[k].name = model_names[StartedBefore(k) + 1]
          /\ IsOutcome(k) =>
                /\ OutcomesBefore(k) = StartedBefore(k) - 1
                /\ OutcomeNames(k, model_names[StartedBefore(k)])
          /\ (trace[k].ev = "call" /\ trace[k].what # "makedirs") =>
                /\ StartedBefore(k) = OutcomesBefore(k) + 1
                /\ trace[k].name = model_names[StartedBefore(k)]
    /\ pc = "done" =>
          /\ StartedBefore(Len(trace) + 1) = Len(model_names)
          /\ OutcomesBefore(Len(trace) + 1) = Len(model_names)

C6_Witness ==
    /\ pc = "done"
    /\ \E k \in Idx : IsLine(k, "success")
    /\ \E k \in Idx : IsLine(k, "warning")
    /\ \E k \in Idx : IsLine(k, "skip") \/ IsLine(k, "error")

MakedirsRaised == trace # <<>> /\ trace[1].res = "raise"

\* C8: unless makedirs raises, the run reaches its end with the completion
\* line printed last; and the completion line is never printed before every
\* checkpoint of the list has its outcome line.
C8_RunCompletes ==
    /\ <>(\/ MakedirsRaised
          \/ pc = "done" /\ trace[Len(trace)] = CompleteLine)
    /\ [](Printed(CompleteLine) # {} =>
            /\ Cardinality(Printed(CompleteLine)) = 1
            /\ trace[Len(trace)] = CompleteLine
            /\ OutcomesBefore(Len(trace)) = Len(model_names)
            /\ \A n \in Names : \E k \in Idx : OutcomeNames(k, n))

C8_Witness ==
    /\ pc = "done"
    /\ Len(model_names) >= 3
    /\ Printed(SuccessLine(model_names[1])) # {}
    /\ Dest(model_names[1]) \in DOMAIN target
    /\ Printed(SkipLine(model_names[2])) # {}
    /\ \E k \in Idx : IsCall(k, "export") /\ trace[k].res = "raise"
                       /\ trace[k].name = model_names[3]
                       /\ IsErrorLineFor(k + 1, model_names[3])
    /\ trace[Len(trace)] = CompleteLine

\* C9: the run ends in an uncaught exception exactly when makedirs raised;
\* then makedirs is the only thing the run did: nothing was tested, loaded,
\* exported, renamed or printed.
C9_OnlyMakedirsIsFatal ==
    /\ pc = "crashed" <=> (trace # <<>> /\ trace[1].res = "raise")
    /\ pc = "crashed" =>
          /\ trace = <<Call("makedirs", NoName, JoinTarget(NoName), NoConfig, "raise")>>
          /\ target = before.target
          /\ cwd = [n \in DOMAIN cwd |-> Weights(n)]

C9_Witness ==
    /\ pc = "crashed"
    /\ before.dirState = "absent"
    /\ DOMAIN cwd # {}

====
